---- MODULE Spec2Model ----
(***************************************************************************)
(* A model of tidydag's Orchestrator (src/tidydag/orchestrator) and of the *)
(* node / context data model (src/tidydag/node/base.py).                   *)
(*                                                                         *)
(* The orchestrator registers nodes in a graphlib.TopologicalSorter, and   *)
(* run() drives an asyncio.TaskGroup: iterate() polls the sorter for ready *)
(* nodes, every ready node gets the next value of id_counter and a task    *)
(* running _visit().  The model keeps the sorter's bookkeeping (insertion  *)
(* order, predecessor counts, successor lists, the ready list), the event  *)
(* loop's scheduling points (the poll's sleep, the await inside a node     *)
(* body) and the task group's abort-on-exception behaviour.                *)
(***************************************************************************)
EXTENDS Integers, Sequences, FiniteSets, TLC

\* ------------------------------------------------------------------ bounds
\* Number of orchestrators run one after the other on the same context.
MaxRuns == 2

\* ------------------------------------------------------------- node model
\* The node objects the caller constructs, in construction order.
NodeSeq == <<"a", "b", "c", "d">>

Nodes == {NodeSeq[i] : i \in 1..Len(NodeSeq)}

\* Position of a node in construction order.
Pos(n) == CHOOSE i \in 1..Len(NodeSeq) : NodeSeq[i] = n

\* Node._verify_parents turns the parents argument into a tuple; the model
\* writes a set of parents as the tuple in construction order.
ParentTuple(S) == SelectSeq(NodeSeq, LAMBDA x : x \in S)

Range(s) == {s[i] : i \in 1..Len(s)}

\* The graph with the given (parent, child) edges.
GraphOf(E) == [n \in Nodes |-> {p \in Nodes : <<p, n>> \in E}]

\* Graphs a caller builds through the constructor: a parent is an already
\* constructed node, so every edge goes forward in construction order.
\* The diamond of the unit tests, two independent chains, one chain, and three
\* roots of which two join in d.
ConstructedGraphs ==
  { GraphOf({<<"a", "b">>, <<"a", "c">>, <<"b", "d">>, <<"c", "d">>}),
    GraphOf({<<"a", "c">>, <<"b", "d">>}),
    GraphOf({<<"a", "b">>, <<"b", "c">>, <<"c", "d">>}),
    GraphOf({<<"a", "d">>, <<"b", "d">>}) }

\* Node.parents is a plain attribute (base.py line 78): assigning it after
\* construction can close a cycle.  Two such graphs: a two-node cycle next to
\* independent nodes, and a cycle below an acyclic root.
MutatedGraphs ==
  { GraphOf({<<"a", "b">>, <<"b", "a">>}),
    GraphOf({<<"a", "b">>, <<"b", "c">>, <<"c", "b">>}) }

Graphs == ConstructedGraphs \cup MutatedGraphs

None == "None"

\* ------------------------------------------------ Node.__init__ arguments
\* Longest iterable passed as `parents`.
MaxParents == 3

\* Values that are not Node instances.
NonNodes == {"not-a-node"}

\* The values passed as `parents`: None, one Node, an iterable (list, tuple,
\* set, generator) of arbitrary elements, a str, a bytes, or a value that is
\* not iterable (an int).
ParentArgs ==
  {[kind |-> k, elems |-> <<>>] : k \in {"None", "str", "bytes", "int"}}
  \cup {[kind |-> "Node", elems |-> <<n>>] : n \in Nodes}
  \cup {[kind |-> "Iterable", elems |-> e] :
          e \in UNION {[1..k -> Nodes \cup NonNodes] : k \in 0..MaxParents}}

NoParentsArg == [kind |-> "None", elems |-> <<>>]

\* A node under construction.
NotBuilt == [status |-> "pending", parents |-> <<>>]

\* isinstance(parents, Iterable): str and bytes are iterable, an int is not.
IsIterable(arg) == arg.kind \in {"Iterable", "str", "bytes"}

\* Node._verify_parents, lines 82-90
VerifyParents(arg) ==
  IF arg.kind = "None" THEN [status |-> "ok", parents |-> <<>>]
  ELSE IF arg.kind = "Node" THEN [status |-> "ok", parents |-> arg.elems]
  ELSE IF IsIterable(arg) /\ arg.kind \notin {"str", "bytes"}
       THEN [status |-> "ok", parents |-> arg.elems]
  ELSE [status |-> "ValueError", parents |-> <<>>]

VARIABLES
  parents,     \* Node.parents of every node object, as a tuple
  nodeId,      \* Node.id of every node object (None until dispatched)
  regOrder,    \* the add_node calls made on the current orchestrator
  sorter,      \* Orchestrator.sorter (graphlib.TopologicalSorter)
  id_counter,  \* Orchestrator.id_counter
  stop,        \* Orchestrator.stop
  ctxGiven,    \* whether Orchestrator.ctx is set (constructor argument or run())
  executed,    \* ctx.metadata.executed
  execution,   \* Orchestrator.execution
  task,        \* the _visit task of every node: its position or how it ended
  abortPending,\* a task raised and the group has not aborted yet
  raisedAt,    \* id_counter when the first task raised (0 before)
  pc,          \* position of the caller / of run()
  run,         \* number of the current orchestrator
  \* observations about the behaviour, not program state
  okCount,     \* number of successful body executions per node, all runs
  prevTask,    \* how every node's task ended in the previous run
  lastErr,     \* the node that most recently returned an ErrorState in this run
  prevId,      \* Node.id of every node when the previous run returned
  \* construction of one node: Node.__init__(name, parents)
  parentsArg,  \* the value passed as `parents`
  built,       \* outcome of the construction and the resulting Node.parents
  \* the context: Orchestrator(ctx) and run(state, deps)
  ctxArg,      \* the `ctx` argument of the constructor of the current orchestrator
  ctx,         \* Orchestrator.ctx: its state and deps references
  runArgs      \* the state and deps arguments of the latest run() call

vars == <<parents, nodeId, regOrder, sorter, id_counter, stop, ctxGiven,
          executed, execution, task, abortPending, raisedAt, pc, run,
          okCount, prevTask, lastErr, prevId, parentsArg, built, ctxArg, ctx, runArgs>>

\* ------------------------------------------------- graphlib.TopologicalSorter
EmptySorter ==
  [ node2info    |-> <<>>,
    npredecessors|-> [n \in Nodes |-> 0],
    successors   |-> [n \in Nodes |-> <<>>],
    prepared     |-> FALSE,
    ready_nodes  |-> <<>>,
    npassedout   |-> 0,
    nfinished    |-> 0 ]

\* TopologicalSorter._get_nodeinfo: create the entry on first use.
GetNodeInfo(s, n) ==
  IF n \in Range(s.node2info) THEN s
  ELSE [s EXCEPT !.node2info = Append(@, n)]

RECURSIVE AddPreds(_, _, _)
AddPreds(s, n, preds) ==
  IF preds = <<>> THEN s
  ELSE LET s1 == GetNodeInfo(s, Head(preds))
           s2 == [s1 EXCEPT !.successors[Head(preds)] = Append(@, n)]
       IN AddPreds(s2, n, Tail(preds))

\* add() counting one predecessor per call instead of len(predecessors).
SorterAddCountsOne(s, n, preds) ==
  LET s1 == GetNodeInfo(s, n)
      s2 == [s1 EXCEPT !.npredecessors[n] = @ + (IF preds = <<>> THEN 0 ELSE 1)]
  IN AddPreds(s2, n, preds)

\* TopologicalSorter.add(node, *predecessors)
SorterAdd(s, n, preds) ==
  LET s1 == GetNodeInfo(s, n)
      s2 == [s1 EXCEPT !.npredecessors[n] = @ + Len(preds)]
  IN AddPreds(s2, n, preds)

\* Nodes reachable from n along successor lists, n excluded unless on a cycle.
RECURSIVE ReachFrom(_, _, _)
ReachFrom(s, frontier, seen) ==
  LET next == UNION {Range(s.successors[m]) : m \in frontier} \ seen
  IN IF next = {} THEN seen ELSE ReachFrom(s, next, seen \cup next)

\* A cycle search that only notices a node listed as its own successor.
HasSelfLoop(s) ==
  \E n \in Range(s.node2info) : n \in Range(s.successors[n])

\* TopologicalSorter._find_cycle, as a predicate
HasCycle(s) ==
  \E n \in Range(s.node2info) : n \in ReachFrom(s, {n}, {})

\* TopologicalSorter.prepare(): the ready list, in insertion order
SorterPrepare(s) ==
  [s EXCEPT !.prepared = TRUE,
            !.ready_nodes = SelectSeq(s.node2info,
                                      LAMBDA n : s.npredecessors[n] = 0)]

\* TopologicalSorter.is_active() / __bool__
IsActive(s) == s.nfinished < s.npassedout \/ s.ready_nodes # <<>>

\* TopologicalSorter.get_ready(): the tracker after handing out the ready list
SorterGetReady(s) ==
  [s EXCEPT !.npredecessors = [n \in Nodes |->
                                 IF n \in Range(s.ready_nodes) THEN -1   \* _NODE_OUT
                                 ELSE s.npredecessors[n]],
            !.npassedout = @ + Len(s.ready_nodes),
            !.ready_nodes = <<>>]

RECURSIVE ReleaseSuccessors(_, _)
ReleaseSuccessors(s, succs) ==
  IF succs = <<>> THEN s
  ELSE LET m  == Head(succs)
           s1 == [s EXCEPT !.npredecessors[m] = @ - 1]
           s2 == IF s1.npredecessors[m] = 0
                 THEN [s1 EXCEPT !.ready_nodes = Append(@, m)]
                 ELSE s1
       IN ReleaseSuccessors(s2, Tail(succs))

\* TopologicalSorter.done(node), for a node that was passed out
SorterDone(s, n) ==
  LET s1 == [s EXCEPT !.npredecessors[n] = -2]   \* _NODE_DONE
      s2 == ReleaseSuccessors(s1, s.successors[n])
  IN [s2 EXCEPT !.nfinished = @ + 1]

\* ------------------------------------------------------ OrchestratorContext
\* The state object the caller makes for the run of orchestrator r: the tests
\* pass a fresh MockState() to every run_sync.
MockState(r) == "state" \o ToString(r)

\* Objects passed as `state` and as `deps`; None is the default of `deps`.
StateObjs == {MockState(1), MockState(2)}

DepsObjs == {"deps", None}

\* Orchestrator.ctx is None
NoCtx == [set |-> FALSE, state |-> None, deps |-> None]

\* OrchestratorContext(state=state, deps=deps)
Context(state, deps) == [set |-> TRUE, state |-> state, deps |-> deps]

\* The values passed as `ctx` to Orchestrator(ctx): None or a context.
CtxArgs == {NoCtx} \cup {Context(s, d) : s \in StateObjs, d \in DepsObjs}

\* No run() call yet.
NoArgs == [state |-> None, deps |-> None]

\* ------------------------------------------------------------ Orchestrator
NoTasks == [n \in Nodes |-> "none"]

Unfinished(t) == {n \in Nodes : t[n] \in {"created", "running"}}

\* OrchestratorExecution(self.ctx, True), line 90
NewExecution == [created |-> TRUE, success |-> TRUE, reason |-> None, last_node |-> None]

Init ==
  /\ parents \in {[n \in Nodes |-> ParentTuple(g[n])] : g \in Graphs}
  /\ nodeId = [n \in Nodes |-> 0]
  /\ regOrder = <<>>
  /\ sorter = EmptySorter
  /\ id_counter = 0
  /\ stop = FALSE
  /\ ctxGiven = FALSE
  /\ executed = {}
  /\ execution = [created |-> FALSE, success |-> FALSE, reason |-> None, last_node |-> None]
  /\ task = NoTasks
  /\ abortPending = FALSE
  /\ raisedAt = 0
  /\ pc = "setup"
  /\ run = 1
  /\ okCount = [n \in Nodes |-> 0]
  /\ prevTask = NoTasks
  /\ lastErr = None
  /\ prevId = [n \in Nodes |-> 0]
  /\ parentsArg = NoParentsArg
  /\ built = NotBuilt
  /\ ctxArg = NoCtx
  /\ ctx = NoCtx
  /\ runArgs = NoArgs

\* Orchestrator.add_node(node)
AddNode(n) ==
  /\ pc = "setup"
  /\ n \notin Range(regOrder)
  /\ sorter' = SorterAdd(sorter, n, parents[n])
  /\ regOrder' = Append(regOrder, n)
  /\ UNCHANGED <<parents, nodeId, id_counter, stop, ctxGiven, executed, execution,
                 task, abortPending, raisedAt, pc, run, okCount, prevTask, lastErr, prevId, parentsArg, built, ctxArg, ctx, runArgs>>

\* The loop test without `and not self.stop`.
IterateLoopIgnoresStop ==
  IF ~IsActive(sorter)
  THEN /\ pc' = "joining"
       /\ UNCHANGED <<sorter, id_counter, nodeId, task>>
  ELSE LET node_group == sorter.ready_nodes
           batchId(n) == id_counter + (CHOOSE i \in 1..Len(node_group) : node_group[i] = n)
       IN /\ pc' = "sleeping"
          /\ sorter' = SorterGetReady(sorter)
          /\ id_counter' = id_counter + Len(node_group)
          /\ nodeId' = [n \in Nodes |-> IF n \in Range(node_group) THEN batchId(n) ELSE nodeId[n]]
          /\ task' = [n \in Nodes |-> IF n \in Range(node_group) THEN "created" ELSE task[n]]

\* id_counter incremented once per batch instead of once per node.
IterateLoopOneId ==
  IF ~IsActive(sorter) \/ stop
  THEN /\ pc' = "joining"
       /\ UNCHANGED <<sorter, id_counter, nodeId, task>>
  ELSE LET node_group == sorter.ready_nodes
       IN /\ pc' = "sleeping"
          /\ sorter' = SorterGetReady(sorter)
          /\ id_counter' = IF node_group = <<>> THEN id_counter ELSE id_counter + 1
          /\ nodeId' = [n \in Nodes |-> IF n \in Range(node_group) THEN id_counter + 1 ELSE nodeId[n]]
          /\ task' = [n \in Nodes |-> IF n \in Range(node_group) THEN "created" ELSE task[n]]

\* One wake-up of the loop of Orchestrator.iterate together with the body of
\* the `async for` in run(): from the loop test up to the next sleep, or out
\* of the loop.  After a batch is yielded the loop test holds again (nodes are
\* passed out and unfinished) and get_ready() is empty, so the generator
\* sleeps: one wake-up hands out at most one batch.
IterateLoop ==
  IF ~IsActive(sorter) \/ stop
  THEN /\ pc' = "joining"
       /\ UNCHANGED <<sorter, id_counter, nodeId, task>>
  ELSE LET node_group == sorter.ready_nodes
           batchId(n) == id_counter + (CHOOSE i \in 1..Len(node_group) : node_group[i] = n)
       IN /\ pc' = "sleeping"
          /\ sorter' = SorterGetReady(sorter)
          /\ id_counter' = id_counter + Len(node_group)
          /\ nodeId' = [n \in Nodes |-> IF n \in Range(node_group) THEN batchId(n) ELSE nodeId[n]]
          /\ task' = [n \in Nodes |-> IF n \in Range(node_group) THEN "created" ELSE task[n]]

\* Lines 88-89 building the context from the arguments whether or not the
\* orchestrator already has one.
RunContextFromArgs(state, deps) == Context(state, deps)

\* `if self.ctx is None: self.ctx = OrchestratorContext(state=state, deps=deps)`
RunContext(state, deps) ==
  IF ~ctx.set THEN Context(state, deps) ELSE ctx

\* Orchestrator.run(state, deps) up to its first suspension: the context, the
\* execution record, prepare() and the first pass of the loop.  A CycleError
\* raised by prepare() leaves the task group empty and is caught by `except*`.
RunStart(state, deps) ==
  /\ pc \in {"setup", "registered"}
  /\ ctx' = RunContext(state, deps)
  /\ runArgs' = [state |-> state, deps |-> deps]
  /\ ctxGiven' = TRUE
  /\ execution' = NewExecution
  /\ IF HasCycle(sorter)
     THEN /\ sorter' = SorterPrepare(sorter)
          /\ pc' = "joining"
          /\ UNCHANGED <<id_counter, nodeId, task>>
     ELSE LET prepared == SorterPrepare(sorter)
          IN IF ~IsActive(prepared) \/ stop
             THEN /\ sorter' = prepared
                  /\ pc' = "joining"
                  /\ UNCHANGED <<id_counter, nodeId, task>>
             ELSE LET node_group == prepared.ready_nodes
                      batchId(n) == id_counter + (CHOOSE i \in 1..Len(node_group) : node_group[i] = n)
                  IN /\ pc' = "sleeping"
                     /\ sorter' = SorterGetReady(prepared)
                     /\ id_counter' = id_counter + Len(node_group)
                     /\ nodeId' = [n \in Nodes |-> IF n \in Range(node_group) THEN batchId(n) ELSE nodeId[n]]
                     /\ task' = [n \in Nodes |-> IF n \in Range(node_group) THEN "created" ELSE task[n]]
  /\ UNCHANGED <<parents, regOrder, stop, executed, abortPending, raisedAt, run, okCount, prevTask, lastErr, prevId, parentsArg, built, ctxArg>>

\* A poll that waits for the whole previous batch before drawing the next one.
PollAfterBatchJoined ==
  /\ pc = "sleeping"
  /\ \A n \in Nodes : task[n] \notin {"created", "running"}
  /\ IterateLoop
  /\ UNCHANGED <<parents, regOrder, stop, ctxGiven, executed, execution,
                 abortPending, raisedAt, run, okCount, prevTask, lastErr, prevId, parentsArg, built, ctxArg, ctx, runArgs>>

\* iterate() wakes from asyncio.sleep(self.step).  Tasks created before the
\* sleep have had their first step by then (the loop runs callbacks in order).
Poll ==
  /\ pc = "sleeping"
  /\ \A n \in Nodes : task[n] # "created"
  /\ IterateLoop
  /\ UNCHANGED <<parents, regOrder, stop, ctxGiven, executed, execution,
                 abortPending, raisedAt, run, okCount, prevTask, lastErr, prevId, parentsArg, built, ctxArg, ctx, runArgs>>

\* First step of the task of node n: _visit up to `await node.execute(ctx)`.
\* Tasks take their first step in creation order, which is identity order.
\* A task created after another task raised is queued behind that task's done
\* callback and is cancelled before its first step.
Start(n) ==
  /\ task[n] = "created"
  /\ \A m \in Nodes : task[m] = "created" => nodeId[n] <= nodeId[m]
  /\ abortPending => nodeId[n] <= raisedAt
  /\ IF nodeId[n] \in executed
     THEN /\ sorter' = SorterDone(sorter, n)
          /\ task' = [task EXCEPT ![n] = "skipped"]
     ELSE /\ task' = [task EXCEPT ![n] = "running"]
          /\ UNCHANGED sorter
  /\ UNCHANGED <<parents, nodeId, regOrder, id_counter, stop, ctxGiven, executed,
                 execution, abortPending, raisedAt, pc, run, okCount, prevTask, lastErr, prevId, parentsArg, built, ctxArg, ctx, runArgs>>

\* _checkpoint assigning a new set instead of adding to the ledger.
CheckpointReplaces(n) == {nodeId[n]}

\* _checkpoint recording the counter's current value instead of node.id.
CheckpointCounter(n) == executed \cup {id_counter}

\* Orchestrator._checkpoint
Checkpoint(n) == executed \cup {nodeId[n]}

\* The success branch without `self.sorter.done(node)`.
FinishSuccessNoDone(n) ==
  /\ task[n] = "running"
  /\ executed' = Checkpoint(n)
  /\ execution' = [execution EXCEPT !.last_node = n]
  /\ task' = [task EXCEPT ![n] = "ok"]
  /\ okCount' = [okCount EXCEPT ![n] = @ + 1]
  /\ UNCHANGED <<parents, nodeId, regOrder, sorter, id_counter, stop, ctxGiven,
                 abortPending, raisedAt, pc, run, prevTask, lastErr, prevId, parentsArg, built, ctxArg, ctx, runArgs>>

\* node.execute returns SuccessState: lines 115-116, 123-125
FinishSuccess(n) ==
  /\ task[n] = "running"
  /\ executed' = Checkpoint(n)
  /\ execution' = [execution EXCEPT !.last_node = n]
  /\ sorter' = SorterDone(sorter, n)
  /\ task' = [task EXCEPT ![n] = "ok"]
  /\ okCount' = [okCount EXCEPT ![n] = @ + 1]
  /\ UNCHANGED <<parents, nodeId, regOrder, id_counter, stop, ctxGiven,
                 abortPending, raisedAt, pc, run, prevTask, lastErr, prevId, parentsArg, built, ctxArg, ctx, runArgs>>

\* _visit checkpointing before it looks at node_state.success.
FinishErrorCheckpoints(n) ==
  /\ task[n] = "running"
  /\ executed' = executed \cup {nodeId[n]}
  /\ stop' = TRUE
  /\ execution' = [execution EXCEPT !.success = FALSE, !.reason = n, !.last_node = n]
  /\ sorter' = SorterDone(sorter, n)
  /\ task' = [task EXCEPT ![n] = "err"]
  /\ lastErr' = n
  /\ UNCHANGED <<parents, nodeId, regOrder, id_counter, ctxGiven,
                 abortPending, raisedAt, pc, run, okCount, prevTask, prevId, parentsArg, built, ctxArg, ctx, runArgs>>

\* The error branch without `self.stop = True`.
FinishErrorNoStop(n) ==
  /\ task[n] = "running"
  /\ execution' = [execution EXCEPT !.success = FALSE, !.reason = n, !.last_node = n]
  /\ sorter' = SorterDone(sorter, n)
  /\ task' = [task EXCEPT ![n] = "err"]
  /\ lastErr' = n
  /\ UNCHANGED <<parents, nodeId, regOrder, id_counter, stop, ctxGiven, executed,
                 abortPending, raisedAt, pc, run, okCount, prevTask, prevId, parentsArg, built, ctxArg, ctx, runArgs>>

\* The error branch without `self.execution.success = False`.
FinishErrorKeepsSuccess(n) ==
  /\ task[n] = "running"
  /\ stop' = TRUE
  /\ execution' = [execution EXCEPT !.reason = n, !.last_node = n]
  /\ sorter' = SorterDone(sorter, n)
  /\ task' = [task EXCEPT ![n] = "err"]
  /\ lastErr' = n
  /\ UNCHANGED <<parents, nodeId, regOrder, id_counter, ctxGiven, executed,
                 abortPending, raisedAt, pc, run, okCount, prevTask, prevId, parentsArg, built, ctxArg, ctx, runArgs>>

\* node.execute returns ErrorState(reason): lines 117-125.  The reason of
\* node n is written n.
FinishError(n) ==
  /\ task[n] = "running"
  /\ stop' = TRUE
  /\ execution' = [execution EXCEPT !.success = FALSE, !.reason = n, !.last_node = n]
  /\ sorter' = SorterDone(sorter, n)
  /\ task' = [task EXCEPT ![n] = "err"]
  /\ lastErr' = n
  /\ UNCHANGED <<parents, nodeId, regOrder, id_counter, ctxGiven, executed,
                 abortPending, raisedAt, pc, run, okCount, prevTask, prevId, parentsArg, built, ctxArg, ctx, runArgs>>

\* node.execute raises: the exception leaves _visit at line 113 and ends the
\* task; the task group learns of it in the task's done callback.
FinishRaise(n) ==
  /\ task[n] = "running"
  /\ task' = [task EXCEPT ![n] = "raised"]
  /\ abortPending' = TRUE
  /\ raisedAt' = IF abortPending THEN raisedAt ELSE id_counter
  /\ UNCHANGED <<parents, nodeId, regOrder, sorter, id_counter, stop, ctxGiven,
                 executed, execution, pc, run, okCount, prevTask, lastErr, prevId, parentsArg, built, ctxArg, ctx, runArgs>>

\* asyncio.TaskGroup on the first failed task: cancel every task that has not
\* finished and the task running the `async with` body (run() itself).  The
\* done callback runs after the first step of every task created before the
\* exception.
Abort ==
  /\ abortPending
  /\ \A n \in Nodes : task[n] = "created" => nodeId[n] > raisedAt
  /\ abortPending' = FALSE
  /\ task' = [n \in Nodes |-> IF n \in Unfinished(task) THEN "cancelled" ELSE task[n]]
  /\ pc' = "joining"
  /\ UNCHANGED <<parents, nodeId, regOrder, sorter, id_counter, stop, ctxGiven,
                 executed, execution, raisedAt, run, okCount, prevTask, lastErr, prevId, parentsArg, built, ctxArg, ctx, runArgs>>

\* The task group has no task left: `except*` swallows whatever it raises and
\* run() returns self.execution (lines 99-103).
Return ==
  /\ pc = "joining"
  /\ Unfinished(task) = {}
  /\ ~abortPending
  /\ pc' = "returned"
  /\ UNCHANGED <<parents, nodeId, regOrder, sorter, id_counter, stop, ctxGiven,
                 executed, execution, task, abortPending, raisedAt, run, okCount, prevTask, lastErr, prevId, parentsArg, built, ctxArg, ctx, runArgs>>

RECURSIVE Register(_, _)
Register(s, order) ==
  IF order = <<>> THEN s
  ELSE Register(SorterAdd(s, Head(order), parents[Head(order)]), Tail(order))

\* The caller resumes: Orchestrator(ctx) on the context of the finished run,
\* then add_node for the same node objects in the same order.
Resume ==
  /\ pc = "returned"
  /\ run < MaxRuns
  /\ run' = run + 1
  /\ sorter' = Register(EmptySorter, regOrder)
  /\ id_counter' = 0
  /\ stop' = FALSE
  /\ execution' = [created |-> FALSE, success |-> FALSE, reason |-> None, last_node |-> None]
  /\ prevTask' = task
  /\ prevId' = nodeId
  /\ lastErr' = None
  /\ task' = NoTasks
  /\ raisedAt' = 0
  /\ pc' = "registered"
  /\ ctxArg' = ctx
  /\ UNCHANGED <<parents, nodeId, regOrder, ctxGiven, executed, abortPending, okCount,
                 parentsArg, built, ctx, runArgs>>

Next ==
  \/ \E n \in Nodes : AddNode(n)
  \/ RunStart(MockState(run), None)
  \/ Poll
  \/ \E n \in Nodes : Start(n)
  \/ \E n \in Nodes : FinishSuccess(n)
  \/ \E n \in Nodes : FinishError(n)
  \/ \E n \in Nodes : FinishRaise(n)
  \/ Abort
  \/ Return
  \/ Resume

Spec == Init /\ [][Next]_vars

\* ------------------------------------------------------- one run, scheduled
\* The steps of a single orchestrator, from registration to the return of run().
RunNext ==
  \/ \E n \in Nodes : AddNode(n)
  \/ RunStart(MockState(run), None)
  \/ Poll
  \/ \E n \in Nodes : Start(n)
  \/ \E n \in Nodes : FinishSuccess(n)
  \/ \E n \in Nodes : FinishError(n)
  \/ \E n \in Nodes : FinishRaise(n)
  \/ Abort
  \/ Return

\* The body of node n comes to an end.
Finish(n) == FinishSuccess(n) \/ FinishError(n) \/ FinishRaise(n)

\* The event loop runs every callback that is ready: the timer of the poll's
\* sleep, the first step of a created task, the done callback of a failed
\* task, the wake-up of run() when the group is empty.
LoopFairness ==
  /\ WF_vars(Poll)
  /\ \A n \in Nodes : WF_vars(Start(n))
  /\ WF_vars(Abort)
  /\ WF_vars(Return)

\* One run in which, besides, every node body that was invoked comes to an end.
TerminatingSpec ==
  Init /\ [][RunNext]_vars /\ LoopFairness /\ \A n \in Nodes : WF_vars(Finish(n))

\* One run in which node bodies may stay suspended forever.
ProgressSpec ==
  Init /\ [][RunNext]_vars /\ LoopFairness

\* ------------------------------------------------------ constructing a node
NodeInit ==
  /\ parents = [n \in Nodes |-> <<>>]
  /\ nodeId = [n \in Nodes |-> 0]
  /\ regOrder = <<>>
  /\ sorter = EmptySorter
  /\ id_counter = 0
  /\ stop = FALSE
  /\ ctxGiven = FALSE
  /\ executed = {}
  /\ execution = [created |-> FALSE, success |-> FALSE, reason |-> None, last_node |-> None]
  /\ task = NoTasks
  /\ abortPending = FALSE
  /\ raisedAt = 0
  /\ pc = "setup"
  /\ run = 1
  /\ okCount = [n \in Nodes |-> 0]
  /\ prevTask = NoTasks
  /\ lastErr = None
  /\ prevId = [n \in Nodes |-> 0]
  /\ parentsArg \in ParentArgs
  /\ built = NotBuilt
  /\ ctxArg = NoCtx
  /\ ctx = NoCtx
  /\ runArgs = NoArgs

\* Node.__init__: self.parents = self._verify_parents(parents), or ValueError
NewNode ==
  /\ built.status = "pending"
  /\ built' = VerifyParents(parentsArg)
  /\ UNCHANGED <<parents, nodeId, regOrder, sorter, id_counter, stop, ctxGiven,
                 executed, execution, task, abortPending, raisedAt, pc, run,
                 okCount, prevTask, lastErr, prevId, parentsArg, ctxArg, ctx, runArgs>>

NodeNext == NewNode

NodeSpec == NodeInit /\ [][NodeNext]_vars

\* ------------------------------------- one run, any context and arguments
\* Orchestrator.__init__(ctx): self.ctx = ctx, with or without a context.
CtxInit ==
  /\ parents \in {[n \in Nodes |-> ParentTuple(g[n])] : g \in Graphs}
  /\ nodeId = [n \in Nodes |-> 0]
  /\ regOrder = <<>>
  /\ sorter = EmptySorter
  /\ id_counter = 0
  /\ stop = FALSE
  /\ ctxArg \in CtxArgs
  /\ ctx = ctxArg
  /\ ctxGiven = ctxArg.set
  /\ executed = {}
  /\ execution = [created |-> FALSE, success |-> FALSE, reason |-> None, last_node |-> None]
  /\ task = NoTasks
  /\ abortPending = FALSE
  /\ raisedAt = 0
  /\ pc = "setup"
  /\ run = 1
  /\ okCount = [n \in Nodes |-> 0]
  /\ prevTask = NoTasks
  /\ lastErr = None
  /\ prevId = [n \in Nodes |-> 0]
  /\ parentsArg = NoParentsArg
  /\ built = NotBuilt
  /\ runArgs = NoArgs

\* One run whose caller passes any state and deps to run().
CtxNext ==
  \/ \E n \in Nodes : AddNode(n)
  \/ \E state \in StateObjs, deps \in DepsObjs : RunStart(state, deps)
  \/ Poll
  \/ \E n \in Nodes : Start(n)
  \/ \E n \in Nodes : FinishSuccess(n)
  \/ \E n \in Nodes : FinishError(n)
  \/ \E n \in Nodes : FinishRaise(n)
  \/ Abort
  \/ Return

CtxSpec == CtxInit /\ [][CtxNext]_vars

TypeOK ==
  /\ pc \in {"setup", "registered", "sleeping", "joining", "returned"}
  /\ \A n \in Nodes : task[n] \in {"none", "created", "skipped", "running", "ok", "err", "raised", "cancelled"}

\* ----------------------------------------------------- vocabulary of the claims
\* The dependency edges the orchestrator was told about: add_node(n) registers
\* the edges from n's parents to n.
RegParents(n) == IF n \in Range(regOrder) THEN Range(parents[n]) ELSE {}

RECURSIVE AncestorsFrom(_, _)
AncestorsFrom(frontier, seen) ==
  LET next == UNION {RegParents(m) : m \in frontier} \ seen
  IN IF next = {} THEN seen ELSE AncestorsFrom(next, seen \cup next)

Ancestors(n) == AncestorsFrom({n}, {})

Descendants(x) == {n \in Nodes : x \in Ancestors(n)}

\* The registered graph contains a cycle.
Cyclic == \E n \in Nodes : n \in Ancestors(n)

\* The nodes of the orchestration graph: registered, or named as a parent.
GraphNodes == Range(regOrder) \cup UNION {RegParents(n) : n \in Nodes}

\* execute() of n was invoked in the current run.
Invoked(n) == task[n] \in {"running", "ok", "err", "raised"}

\* C1 (topological soundness): whatever the registration order and the
\* interleaving, a node whose execute() has begun has every registered parent
\* finished (successfully or skipped as checkpointed) with the parent's
\* identity in ctx.metadata.executed.
C1_TopologicalSoundness ==
  \A n \in Nodes : Invoked(n) =>
    \A p \in RegParents(n) : /\ task[p] \in {"ok", "skipped"}
                             /\ nodeId[p] \in executed

\* The diamond registered leaf first, d executing after both parents.
C1_Witness ==
  /\ run = 1
  /\ Len(regOrder) = 4 /\ regOrder[1] = "d"
  /\ parents["d"] = <<"b", "c">>
  /\ task["d"] = "running"

\* C2 (completeness): on a fresh context, when run() returns and every body
\* that ran returned Success, every node of an acyclic graph has its identity
\* in the ledger, the identities are pairwise distinct, the ledger has exactly
\* one entry per node, each body ran once, and the result reports success.
C2_Completeness ==
  (/\ pc = "returned" /\ run = 1 /\ ~Cyclic
   /\ \A n \in Nodes : task[n] \in {"none", "ok"})
  => /\ \A n \in GraphNodes : nodeId[n] \in executed /\ okCount[n] = 1
     /\ \A n, m \in GraphNodes : n # m => nodeId[n] # nodeId[m]
     /\ Cardinality(executed) = Cardinality(GraphNodes)
     /\ execution.success = TRUE

C2_Witness ==
  /\ pc = "returned" /\ run = 1
  /\ Len(regOrder) = 4
  /\ \A n \in Nodes : task[n] = "ok"
  /\ parents["d"] = <<"b", "c">>

\* C3 (failure containment, descendants): once X has returned an Error state,
\* X is marked done in the tracker and no descendant of X is dispatched in
\* that run, so none has execute() invoked or is checkpointed.
C3_DescendantsContained ==
  \A x \in Nodes : task[x] = "err" =>
    /\ sorter.npredecessors[x] = -2
    /\ \A d \in Descendants(x) : task[d] = "none"

\* X failed, the tracker released a child of X into its ready list, and the
\* run returned without dispatching it.
C3_Witness ==
  /\ pc = "returned"
  /\ \E x \in Nodes : /\ task[x] = "err"
                      /\ Descendants(x) \cap Range(sorter.ready_nodes) # {}

\* C4 (failure containment, siblings): when run() returns after some node
\* returned an Error state, every node that was dispatched has run its body to
\* completion (none was cancelled), and every one that returned Success is in
\* the ledger.
C4_SiblingsComplete ==
  (pc = "returned" /\ \E x \in Nodes : task[x] = "err")
  => \A n \in Nodes : /\ task[n] # "cancelled"
                      /\ task[n] = "ok" => nodeId[n] \in executed

\* C5 (resume correctness): after a first run that ended in a node failure and
\* a resumed run on the same context in which every body succeeds, every node
\* of the graph has run successfully exactly once over the two runs.
C5_ResumeExactlyOnce ==
  (/\ pc = "returned" /\ run = 2 /\ ~Cyclic
   /\ \E x \in Nodes : prevTask[x] = "err"
   /\ \A n \in Nodes : prevTask[n] \in {"none", "ok", "err"}
   /\ \A n \in Nodes : task[n] \in {"none", "ok", "skipped"})
  => \A n \in GraphNodes : okCount[n] = 1

\* C6 (escaped exception reported): when run() returns after a node body
\* raised, the result has success = false and the reason is the message of a
\* raising node.
C6_RaiseReported ==
  (pc = "returned" /\ \E n \in Nodes : task[n] = "raised")
  => /\ execution.success = FALSE
     /\ \E n \in Nodes : task[n] = "raised" /\ execution.reason = n

\* C7 (escaped exception leaves siblings alone): no task is ever cancelled
\* because another node's body raised.
C7_SiblingsNotCancelled ==
  \A n \in Nodes : task[n] = "raised" => \A m \in Nodes : task[m] # "cancelled"

\* C8 (cycle rejection visible): with a cycle in the registered graph, run()
\* never returns an execution result.
C8_CycleRaised ==
  Cyclic => pc # "returned"

\* C9 (no execution on a cyclic graph): with a cycle in the registered graph
\* no task is created, no identity is assigned and the ledger stays as it was,
\* also for the nodes outside the cycle.
C9_NoExecutionOnCycle ==
  Cyclic => /\ \A n \in Nodes : task[n] = "none" /\ nodeId[n] = 0
            /\ id_counter = 0
            /\ executed = {}

\* run() has returned on a cyclic graph that also has a node with no parents.
C9_Witness ==
  /\ Cyclic
  /\ pc = "returned"
  /\ \E n \in Range(regOrder) : parents[n] = <<>>

\* C10 (node failures are returned): when run() returns on an acyclic graph
\* whose bodies only returned Success or Error states, an execution record
\* exists and its success is false exactly when some node invoked in that run
\* returned an Error state.
C10_FailuresReturned ==
  (/\ pc = "returned" /\ ~Cyclic
   /\ \A n \in Nodes : task[n] \notin {"raised", "cancelled"})
  => /\ execution.created
     /\ (execution.success = FALSE) <=> (\E n \in Nodes : task[n] = "err")

\* One node returned Error and a sibling returned Success before run() returned.
C10_Witness ==
  /\ pc = "returned"
  /\ \E n, m \in Nodes : task[n] = "err" /\ task[m] = "ok"
  /\ execution.success = FALSE

\* C11 (failure report names the failing node): when run() returns with
\* success = false, last_node is the node that most recently returned an Error
\* state and reason is that node's reason.
C11_LastNodeIsFailing ==
  (pc = "returned" /\ execution.created /\ execution.success = FALSE)
  => /\ execution.last_node = lastErr
     /\ execution.reason = lastErr

\* C12 (ledger monotonicity): no step (dispatch, skip, success, failure,
\* abort, return, resumption on the same context) removes an identity from
\* ctx.metadata.executed.
C12_LedgerMonotone ==
  [][executed \subseteq executed']_vars

\* A resumed run, after a failed first run, has filled the ledger further.
C12_Witness ==
  /\ run = 2 /\ pc = "returned"
  /\ \E x \in Nodes : prevTask[x] = "err"
  /\ Cardinality(executed) = 4

\* C13 (ledger contains only successes): in a run on a fresh context the
\* ledger is exactly the set of identities of the nodes whose execute()
\* returned Success; a node that returned Error, raised, was cancelled, is
\* still running or was never dispatched is not in it.
C13_LedgerOnlySuccesses ==
  run = 1 =>
    /\ \A n \in Nodes : (nodeId[n] \in executed) <=> (task[n] = "ok")
    /\ executed \subseteq {nodeId[n] : n \in Nodes}

\* A first run that returned with a success, a failure and an undispatched node.
C13_Witness ==
  /\ run = 1 /\ pc = "returned"
  /\ \E n, m, k \in GraphNodes : task[n] = "ok" /\ task[m] = "err" /\ task[k] = "none"

\* The nodes were built through the constructor only (no reassigned parents).
DeclaredAcyclic == [n \in Nodes |-> Range(parents[n])] \in ConstructedGraphs

\* C14 (transitive registration): add_node(n) brings every declared ancestor
\* of n into the graph with its edges, so a node whose execute() has begun has
\* every declared parent finished, also when only a leaf was registered.
C14_TransitiveRegistration ==
  DeclaredAcyclic =>
    \A n \in Nodes : Invoked(n) =>
      \A p \in Range(parents[n]) : task[p] \in {"ok", "skipped"}

\* The parents argument is None, one Node, or an iterable of Nodes only.
ValidParents(arg) ==
  \/ arg.kind \in {"None", "Node"}
  \/ arg.kind = "Iterable" /\ \A i \in 1..Len(arg.elems) : arg.elems[i] \in Nodes

\* C15 (parent validation): construction succeeds exactly when the parents
\* argument is None, a single Node or an iterable whose elements are all
\* Nodes, and then Node.parents is the tuple of those parents; anything else
\* is rejected with an error.
C15_ParentValidation ==
  built.status # "pending" =>
    /\ (built.status = "ok") <=> ValidParents(parentsArg)
    /\ built.status = "ok" => built.parents = parentsArg.elems

\* C16 (stop flag closes admission): once some node has returned an Error
\* state, a node that is not dispatched stays undispatched for the rest of
\* the run, whether or not it descends from the failed node.
C16_StopClosesAdmission ==
  [][(\E x \in Nodes : task[x] = "err")
       => \A n \in Nodes : task[n] = "none" => task'[n] = "none"]_vars

\* run() returned after a failure while the tracker holds a ready node that
\* does not descend from the failed node.
C16_Witness ==
  /\ pc = "returned"
  /\ \E x \in Nodes : /\ task[x] = "err"
                      /\ Range(sorter.ready_nodes) \ Descendants(x) # {}

\* C17 (identity stability across resume): a node dispatched in the resumed
\* run holds the identity it was given in the earlier run.
C17_IdentityStable ==
  (/\ run = 2
   /\ \A n \in Nodes : prevTask[n] \in {"none", "ok", "err"})
  => \A n \in Nodes :
       (task[n] # "none" /\ prevTask[n] # "none") => nodeId[n] = prevId[n]

\* The nodes dispatched in the current run.
Dispatched == {n \in Nodes : task[n] # "none"}

\* C18 (identity uniqueness): in every state the identities of the nodes
\* dispatched in the current run are exactly 1..k for the k dispatched nodes
\* (no two share one) and id_counter = k; a newly dispatched node gets an
\* identity above every earlier one, and a dispatched node keeps its identity
\* and is not dispatched again in the run.
C18_IdentityUnique ==
  /\ [](/\ {nodeId[n] : n \in Dispatched} = 1..Cardinality(Dispatched)
        /\ id_counter = Cardinality(Dispatched))
  /\ [][\A n \in Nodes :
          /\ (task[n] = "none" /\ task'[n] # "none")
               => (task'[n] = "created" /\ nodeId'[n] > id_counter)
          /\ (task[n] # "none" /\ task'[n] # "none")
               => (nodeId'[n] = nodeId[n] /\ (task'[n] = "created" => task[n] = "created"))]_vars

\* Four nodes dispatched in an order that differs from construction order.
C18_Witness ==
  /\ run = 1
  /\ Cardinality(Dispatched) = 4
  /\ nodeId["d"] = 3 /\ nodeId["c"] = 4

\* C19 (termination): with every ready callback of the event loop run and
\* every invoked body coming to an end, a run() that has started returns.
C19_Termination ==
  (pc \in {"sleeping", "joining"}) ~> (pc = "returned")

\* The chain a -> b -> c -> d ran to the end: the loop polled with an empty
\* ready list between the batches and left once the tracker was inactive.
C19_Witness ==
  /\ pc = "returned"
  /\ parents["d"] = <<"c">> /\ parents["c"] = <<"b">>
  /\ \A n \in Nodes : task[n] = "ok"

\* Some node of the run returned an Error state or raised.
Failed == \E m \in Nodes : task[m] \in {"err", "raised", "cancelled"}

\* n is in the graph, not dispatched, all its registered parents finished
\* successfully, the loop is polling and nothing has failed.
ReadyToRun(n) ==
  /\ pc = "sleeping"
  /\ n \in GraphNodes /\ task[n] = "none"
  /\ \A p \in RegParents(n) : task[p] \in {"ok", "skipped"}
  /\ ~Failed

\* C20 (independent progress): a node whose parents have all finished
\* successfully is eventually dispatched unless a failure intervenes, even if
\* other nodes stay suspended in their bodies forever.
C20_IndependentProgress ==
  \A n \in Nodes : ReadyToRun(n) ~> (task[n] # "none" \/ Failed)

\* d was dispatched and runs while a, from the first batch and unrelated to
\* d, is still inside its body.
C20_Witness ==
  /\ parents["d"] = <<"b">> /\ parents["c"] = <<"a">>
  /\ task["a"] = "running" /\ task["b"] = "ok" /\ task["d"] = "running"

\* C21 (success is trustworthy): when run() has returned a result with
\* success = true, every node registered with the orchestrator has its
\* identity in ctx.metadata.executed, whatever the graph and whatever the
\* bodies did (returned Success, returned Error, raised).
C21_SuccessTrustworthy ==
  (pc = "returned" /\ execution.created /\ execution.success = TRUE)
  => \A n \in Range(regOrder) : nodeId[n] \in executed

\* The same statement for graphs without a cycle in which no body raised.
C21_WithoutRaiseOrCycle ==
  (/\ pc = "returned" /\ execution.created /\ execution.success = TRUE
   /\ ~Cyclic
   /\ \A n \in Nodes : task[n] \notin {"raised", "cancelled"})
  => \A n \in Range(regOrder) : nodeId[n] \in executed

\* run() was called on the current orchestrator.
RunCalled == pc \in {"sleeping", "joining", "returned"}

\* C22 (supplied context wins): an orchestrator constructed with a context
\* keeps that context, with the state and deps it came with, through run()
\* whatever state and deps run() is passed; an orchestrator constructed
\* without one has no context until run() is called and from then on the
\* context built from the arguments of that call.
C22_SuppliedContextWins ==
  IF ctxArg.set
  THEN ctx = ctxArg
  ELSE IF RunCalled
       THEN ctx = Context(runArgs.state, runArgs.deps)
       ELSE ctx = NoCtx

\* run() returned on an orchestrator that was given a context, after being
\* passed another state and other deps, and a body ran in that context.
C22_Witness ==
  /\ pc = "returned"
  /\ ctxArg.set
  /\ runArgs.state # ctxArg.state /\ runArgs.deps # ctxArg.deps
  /\ ctx.state = ctxArg.state /\ ctx.deps = ctxArg.deps
  /\ \E n \in Nodes : task[n] = "ok"

====
